---- MODULE Spec2Model ----
(***************************************************************************)
(* oxidrop: the shared discovery subscription of src/src/lib.rs (the hub   *)
(* lock, the weak broadcast sender, the StreamWrapper drop guard) and the  *)
(* event loops of src/src/main.rs (list, cursor, dot counter).             *)
(*                                                                         *)
(* Several specifications share the module.  SpecHub runs library calls on *)
(* NumThreads threads; SpecLoop runs one event loop (send or receive);     *)
(* SpecReceive runs do_receive on the requests of the spec's scenario;     *)
(* SpecSend runs do_send from its discover_endpoints call to the drop of   *)
(* its locals; SpecEndpoints and SpecRequests run the two broadcast        *)
(* streams with their filters; SpecMerge runs the merged event stream.     *)
(***************************************************************************)
EXTENDS Integers, Sequences, FiniteSets

\* ---------------------------------------------------------------- bounds
NumThreads == 2      \* threads calling into the library
MaxCalls == 3        \* library calls (discover/accept/reject/get) in a run
MaxConfirms == 1     \* outward calls a loop issues before Confirm is cut off
UsizeBits == 3       \* width of usize in the model (the build has 64)
NumIds == 2          \* distinct endpoint / request ids the network can deliver
Capacity == 2        \* slots of a broadcast channel in the model (the build has 16)
MaxEmits == 3        \* messages the engine sends on a channel in a run
MaxEvents == 2       \* events the network and the keyboard each produce in a run

Threads == 1..NumThreads
Chans == 0..MaxCalls          \* 0 is the channel(1) made by Oxidrop::new
Sids == 1..MaxCalls
UsizeMax == 2^UsizeBits - 1
ItemIds == 1..NumIds

VARIABLES
  \* ---- src/src/lib.rs
  endpoint_send,    \* Oxidrop.endpoint_send: the channel the weak sender names
  hub_lock,         \* holder of the Mutex around endpoint_send, 0 = free
  hub_poisoned,     \* that Mutex is poisoned
  rqs_lock,         \* holder of Oxidrop.rqs (Mutex<RQS>), 0 = free
  rqs_poisoned,     \* that Mutex is poisoned
  num_chan,         \* broadcast channels created by discover_endpoints so far
  num_tx,           \* [Chans -> Nat] strong Senders alive per channel
  receiver_count,   \* [Chans -> Nat] Receivers alive per channel
  engine_tx,        \* [Chans -> "none"|"held"|"cancelled"] the engine's clone
  discovering,      \* RQS discovery is running
  streams,          \* [Sids -> [st, ch]] StreamWrappers handed out
  pc,               \* [Threads -> position]
  arg,              \* [Threads -> channel / stream / request in hand]
  ret,              \* [Threads -> result of the thread's last call]
  num_calls,        \* library calls begun
  start_calls,      \* RQS::discovery calls that returned Ok
  stop_calls,       \* RQS::stop_discovery calls
  msg_sent,         \* control messages sent on message_sender
  msg_receivers,    \* subscriptions made by get_transfer_requests
  sub_after_drop,   \* a discover_endpoints call overlapped or followed a disposal
  \* ---- src/src/main.rs
  mode,             \* "send" | "receive" | "off"
  items,            \* state.endpoints / state.requests (IndexSet, in order)
  selected,         \* state.list_state.selected: -1 = None
  num_dots,         \* state.num_dots
  loop,             \* "running" | "quit" | "failed" | "panicked"
  last_ev,          \* the event the loop handled last
  last_item,        \* the item that event carried (NoItem when none)
  num_actions,      \* send_files / accept_transfer calls issued
  issued,           \* the item the last event issued such a call for, else NoItem
  scen,             \* progress through the A, B, C, Down, Down, Confirm script
  \* ---- src/src/main.rs: do_send from its call to its return
  main_pc,          \* "off" | "discover" | "loop" | "exit" | "done"
  exit_idx,         \* on exit: index into DropOrder of the next value to drop
  \* ---- the broadcast channel behind a returned stream, seen by its Receiver
  buf,              \* messages sent and not yet received, oldest first
  lagged,           \* messages were overwritten before this Receiver read them
  num_emits,        \* messages sent on the channel
  sent_ok,          \* messages sent that pass the stream's filter
  yielded,          \* items the stream has yielded
  last_yield,       \* the message behind the item yielded last, else NoMsg
  full_ids,         \* ids of the endpoint events sent with both ip and port
  \* ---- the merged stream of main.rs:128-132 / 207-211
  produced,         \* [source -> events the source has made ready]
  delivered,        \* [source -> events of the source the merged stream yielded]
  net_done,         \* the network stream has ended (its channel is closed)
  a_first,          \* [merge -> the Merge's a_first flag]
  tick_ready,       \* the interval has a tick ready
  out               \* what the last poll of the merged stream returned

hubVars == <<endpoint_send, hub_lock, hub_poisoned, rqs_lock, rqs_poisoned,
             num_chan, num_tx, receiver_count, engine_tx, discovering,
             streams, pc, arg, ret, num_calls, start_calls, stop_calls,
             msg_sent, msg_receivers, sub_after_drop>>
loopVars == <<mode, items, selected, num_dots, loop, last_ev, last_item, num_actions,
              issued, scen>>
mainVars == <<main_pc, exit_idx>>
chanVars == <<buf, lagged, num_emits, sent_ok, yielded, last_yield, full_ids>>
mergeVars == <<produced, delivered, net_done, a_first, tick_ready, out>>
nonHubVars == <<loopVars, mainVars, chanVars, mergeVars>>
vars == <<hubVars, loopVars, mainVars, chanVars, mergeVars>>

\* ------------------------------------------------- lib.rs: helper operators
Ok == "Ok"
CorruptedState == "CorruptedState"
Other == "Other"
Panicked == "panic"

\* broadcast::WeakSender::upgrade succeeds while a strong Sender is alive
UpgradeAlways(ch) == TRUE
Upgrade(ch) == num_tx[ch] > 0

\* lib.rs:197  sender.receiver_count() == 1
IsLastReceiver(ch) == receiver_count[ch] = 1

\* Mutex::lock on endpoint_send blocks while another thread holds it
HubLockFreeAlways == TRUE
HubLockFree == hub_lock = 0

\* Mutex::lock on rqs blocks while another thread holds it
RqsLockFreeAlways == TRUE
RqsLockFree == rqs_lock = 0

\* streams whose Receiver is still alive
Unreleased == {s \in Sids : streams[s].st \in {"live", "dropping"}}
Live == {s \in Sids : streams[s].st = "live"}
Returned == {s \in Sids : streams[s].st # "free"}
Idle == \A t \in Threads : pc[t] = "idle"
InDiscover(t) == pc[t] \in {"d_lock", "d_check", "d_sub", "d_ret", "d_rqs", "d_start"}
InCritical(t) == pc[t] \in {"d_check", "d_sub", "d_ret", "d_rqs", "d_start"}

\* the StreamWrapper built at lib.rs:227-236 around a Receiver of channel ch
NewStream(ch) ==
  LET s == Cardinality(Returned) + 1
  IN  [streams EXCEPT ![s] = [st |-> "live", ch |-> ch]]

\* ------------------------------------------ lib.rs: discover_endpoints
\* the call is made
DiscoverBegin(t) ==
  /\ pc[t] = "idle"
  /\ num_calls < MaxCalls
  /\ num_calls' = num_calls + 1
  /\ pc' = [pc EXCEPT ![t] = "d_lock"]
  /\ ret' = [ret EXCEPT ![t] = "none"]
  /\ sub_after_drop' =
       (sub_after_drop \/ \E s \in Sids : streams[s].st \in {"dropping", "dead"})
  /\ UNCHANGED <<endpoint_send, hub_lock, hub_poisoned, rqs_lock, rqs_poisoned,
                 num_chan, num_tx, receiver_count, engine_tx, discovering,
                 streams, arg, start_calls, stop_calls, msg_sent, msg_receivers>>

\* lib.rs:207-210  self.endpoint_send.lock().map_err(|_| CorruptedState)?
DiscoverLock(t) ==
  /\ pc[t] = "d_lock"
  /\ HubLockFree
  /\ IF hub_poisoned
       THEN /\ pc' = [pc EXCEPT ![t] = "idle"]
            /\ ret' = [ret EXCEPT ![t] = CorruptedState]
            /\ UNCHANGED hub_lock
       ELSE /\ pc' = [pc EXCEPT ![t] = "d_check"]
            /\ hub_lock' = t
            /\ UNCHANGED ret
  /\ UNCHANGED <<endpoint_send, hub_poisoned, rqs_lock, rqs_poisoned, num_chan,
                 num_tx, receiver_count, engine_tx, discovering, streams, arg,
                 num_calls, start_calls, stop_calls, msg_sent, msg_receivers,
                 sub_after_drop>>

\* lib.rs:212-216  match endpoint_send_guard.upgrade(): Some keeps the strong
\* sender in hand; None makes broadcast::channel(10) and stores its weak form
DiscoverCheck(t) ==
  /\ pc[t] = "d_check"
  /\ IF Upgrade(endpoint_send)
       THEN /\ num_tx' = [num_tx EXCEPT ![endpoint_send] = @ + 1]
            /\ arg' = [arg EXCEPT ![t] = endpoint_send]
            /\ pc' = [pc EXCEPT ![t] = "d_sub"]
            /\ UNCHANGED <<endpoint_send, num_chan, receiver_count>>
       ELSE LET c == num_chan + 1
            IN  /\ num_chan' = c
                /\ num_tx' = [num_tx EXCEPT ![c] = 1]
                /\ receiver_count' = [receiver_count EXCEPT ![c] = 1]
                /\ endpoint_send' = c
                /\ arg' = [arg EXCEPT ![t] = c]
                /\ pc' = [pc EXCEPT ![t] = "d_rqs"]
  /\ UNCHANGED <<hub_lock, hub_poisoned, rqs_lock, rqs_poisoned, engine_tx,
                 discovering, streams, ret, num_calls, start_calls, stop_calls,
                 msg_sent, msg_receivers, sub_after_drop>>

\* lib.rs:213  endpoint_send.subscribe()
DiscoverSubscribe(t) ==
  /\ pc[t] = "d_sub"
  /\ receiver_count' = [receiver_count EXCEPT ![arg[t]] = @ + 1]
  /\ pc' = [pc EXCEPT ![t] = "d_ret"]
  /\ UNCHANGED <<endpoint_send, hub_lock, hub_poisoned, rqs_lock, rqs_poisoned,
                 num_chan, num_tx, engine_tx, discovering, streams, arg, ret,
                 num_calls, start_calls, stop_calls, msg_sent, msg_receivers,
                 sub_after_drop>>

\* lib.rs:213, 225-236  the strong sender and the hub guard go out of scope
\* and the StreamWrapper is returned
DiscoverReturn(t) ==
  /\ pc[t] = "d_ret"
  /\ num_tx' = [num_tx EXCEPT ![arg[t]] = @ - 1]
  /\ hub_lock' = 0
  /\ streams' = NewStream(arg[t])
  /\ pc' = [pc EXCEPT ![t] = "idle"]
  /\ ret' = [ret EXCEPT ![t] = Ok]
  /\ arg' = [arg EXCEPT ![t] = 0]
  /\ UNCHANGED <<endpoint_send, hub_poisoned, rqs_lock, rqs_poisoned, num_chan,
                 receiver_count, engine_tx, discovering, num_calls, start_calls,
                 stop_calls, msg_sent, msg_receivers, sub_after_drop>>

\* lib.rs:217-219  self.rqs.lock().map_err(|_| CorruptedState)?  On the error
\* the new channel's sender and receiver and the hub guard are dropped.
DiscoverLockRqs(t) ==
  /\ pc[t] = "d_rqs"
  /\ RqsLockFree
  /\ IF rqs_poisoned
       THEN /\ num_tx' = [num_tx EXCEPT ![arg[t]] = @ - 1]
            /\ receiver_count' = [receiver_count EXCEPT ![arg[t]] = @ - 1]
            /\ hub_lock' = 0
            /\ pc' = [pc EXCEPT ![t] = "idle"]
            /\ ret' = [ret EXCEPT ![t] = CorruptedState]
            /\ arg' = [arg EXCEPT ![t] = 0]
            /\ UNCHANGED rqs_lock
       ELSE /\ rqs_lock' = t
            /\ pc' = [pc EXCEPT ![t] = "d_start"]
            /\ UNCHANGED <<num_tx, receiver_count, hub_lock, ret, arg>>
  /\ UNCHANGED <<endpoint_send, hub_poisoned, rqs_poisoned, num_chan, engine_tx,
                 discovering, streams, num_calls, start_calls, stop_calls,
                 msg_sent, msg_receivers, sub_after_drop>>

\* lib.rs:220-236  .discovery(endpoint_send.clone()): Ok leaves the clone with
\* the engine and the call returns the StreamWrapper; Err returns Other and
\* drops the channel's only sender and receiver; a panic inside the engine
\* unwinds through both guards and poisons both locks.
DiscoverStart(t) ==
  /\ pc[t] = "d_start"
  /\ \E outcome \in {Ok, Other, Panicked} :
       /\ ret' = [ret EXCEPT ![t] = outcome]
       /\ IF outcome = Ok
            THEN /\ engine_tx' = [engine_tx EXCEPT ![arg[t]] = "held"]
                 /\ discovering' = TRUE
                 /\ start_calls' = start_calls + 1
                 /\ streams' = NewStream(arg[t])
                 /\ UNCHANGED <<num_tx, receiver_count>>
            ELSE /\ num_tx' = [num_tx EXCEPT ![arg[t]] = @ - 1]
                 /\ receiver_count' = [receiver_count EXCEPT ![arg[t]] = @ - 1]
                 /\ UNCHANGED <<engine_tx, discovering, start_calls, streams>>
       /\ hub_poisoned' = (hub_poisoned \/ outcome = Panicked)
       /\ rqs_poisoned' = (rqs_poisoned \/ outcome = Panicked)
  /\ rqs_lock' = 0
  /\ hub_lock' = 0
  /\ pc' = [pc EXCEPT ![t] = "idle"]
  /\ arg' = [arg EXCEPT ![t] = 0]
  /\ UNCHANGED <<endpoint_send, num_chan, num_calls, stop_calls, msg_sent,
                 msg_receivers, sub_after_drop>>

\* ------------------------------------- lib.rs: StreamWrapper (PinnedDrop)
\* lib.rs:195-196  the stream is being dropped: self.1.upgrade() finds the
\* engine (Oxidrop outlives its streams here), self.2.upgrade() takes a
\* strong sender if one is alive
DropUpgrade(t, s) ==
  /\ pc[t] = "idle"
  /\ streams[s].st = "live"
  /\ streams' = [streams EXCEPT ![s].st = "dropping"]
  /\ arg' = [arg EXCEPT ![t] = s]
  /\ ret' = [ret EXCEPT ![t] = "none"]
  /\ IF Upgrade(streams[s].ch)
       THEN /\ num_tx' = [num_tx EXCEPT ![streams[s].ch] = @ + 1]
            /\ pc' = [pc EXCEPT ![t] = "x_count"]
       ELSE /\ pc' = [pc EXCEPT ![t] = "x_release"]
            /\ UNCHANGED num_tx
  /\ sub_after_drop' = (sub_after_drop \/ \E u \in Threads : InDiscover(u))
  /\ UNCHANGED <<endpoint_send, hub_lock, hub_poisoned, rqs_lock, rqs_poisoned,
                 num_chan, receiver_count, engine_tx, discovering, num_calls,
                 start_calls, stop_calls, msg_sent, msg_receivers>>

\* lib.rs:197  && sender.receiver_count() == 1; when false the upgraded
\* sender is let go and the body is skipped
DropCount(t) ==
  /\ pc[t] = "x_count"
  /\ IF IsLastReceiver(streams[arg[t]].ch)
       THEN /\ pc' = [pc EXCEPT ![t] = "x_lock"]
            /\ UNCHANGED num_tx
       ELSE /\ pc' = [pc EXCEPT ![t] = "x_release"]
            /\ num_tx' = [num_tx EXCEPT ![streams[arg[t]].ch] = @ - 1]
  /\ UNCHANGED <<endpoint_send, hub_lock, hub_poisoned, rqs_lock, rqs_poisoned,
                 num_chan, receiver_count, engine_tx, discovering, streams, arg,
                 ret, num_calls, start_calls, stop_calls, msg_sent,
                 msg_receivers, sub_after_drop>>

\* lib.rs:199-200  rqs.lock().unwrap_or_else(|e| e.into_inner()): the guard
\* is taken whether or not the lock is poisoned
DropLockRqs(t) ==
  /\ pc[t] = "x_lock"
  /\ RqsLockFree
  /\ rqs_lock' = t
  /\ pc' = [pc EXCEPT ![t] = "x_stop"]
  /\ UNCHANGED <<endpoint_send, hub_lock, hub_poisoned, rqs_poisoned, num_chan,
                 num_tx, receiver_count, engine_tx, discovering, streams, arg,
                 ret, num_calls, start_calls, stop_calls, msg_sent,
                 msg_receivers, sub_after_drop>>

\* RQS::stop_discovery as called at lib.rs:201: the running discovery is
\* cancelled; the engine's task still holds its sender clone until it notices
StopDiscovery ==
  /\ discovering' = FALSE
  /\ engine_tx' = [c \in Chans |->
                     IF engine_tx[c] = "held" THEN "cancelled" ELSE engine_tx[c]]
  /\ stop_calls' = stop_calls + 1

\* lib.rs:201-202  .stop_discovery(); then the guard and the upgraded sender
\* go out of scope
DropStop(t) ==
  /\ pc[t] = "x_stop"
  /\ StopDiscovery
  /\ rqs_lock' = 0
  /\ num_tx' = [num_tx EXCEPT ![streams[arg[t]].ch] = @ - 1]
  /\ pc' = [pc EXCEPT ![t] = "x_release"]
  /\ UNCHANGED <<endpoint_send, hub_lock, hub_poisoned, rqs_poisoned, num_chan,
                 receiver_count, streams, arg, ret, num_calls, start_calls,
                 msg_sent, msg_receivers, sub_after_drop>>

\* lib.rs:203-204  after the drop body the fields are dropped: the stream's
\* own Receiver leaves the channel
DropRelease(t) ==
  /\ pc[t] = "x_release"
  /\ receiver_count' = [receiver_count EXCEPT ![streams[arg[t]].ch] = @ - 1]
  /\ streams' = [streams EXCEPT ![arg[t]].st = "dead"]
  /\ pc' = [pc EXCEPT ![t] = "idle"]
  /\ arg' = [arg EXCEPT ![t] = 0]
  /\ UNCHANGED <<endpoint_send, hub_lock, hub_poisoned, rqs_lock, rqs_poisoned,
                 num_chan, num_tx, engine_tx, discovering, ret, num_calls,
                 start_calls, stop_calls, msg_sent, msg_receivers,
                 sub_after_drop>>

\* the engine's cancelled discovery task ends and drops the sender clone it
\* was given at lib.rs:220
EngineRelease(c) ==
  /\ engine_tx[c] = "cancelled"
  /\ engine_tx' = [engine_tx EXCEPT ![c] = "none"]
  /\ num_tx' = [num_tx EXCEPT ![c] = @ - 1]
  /\ UNCHANGED <<endpoint_send, hub_lock, hub_poisoned, rqs_lock, rqs_poisoned,
                 num_chan, receiver_count, discovering, streams, pc, arg, ret,
                 num_calls, start_calls, stop_calls, msg_sent, msg_receivers,
                 sub_after_drop>>

\* -------------------- lib.rs: accept_transfer, reject_transfer (114-144)
\* a TransferRequest as get_transfer_requests surfaces it: its metadata may
\* be absent (lib.rs:249-255 does not look at msg.meta)
Metas == {"some", "none"}

\* lib.rs:115-117 / 131-133  self.rqs.lock().map_err(|_| CorruptedState)?
\* arg keeps whether the request in hand has metadata (1) or not (0)
TransferLock(t, action, meta) ==
  /\ pc[t] = "idle"
  /\ num_calls < MaxCalls
  /\ num_calls' = num_calls + 1
  /\ RqsLockFree
  /\ IF rqs_poisoned
       THEN /\ ret' = [ret EXCEPT ![t] = CorruptedState]
            /\ UNCHANGED <<pc, arg, rqs_lock>>
       ELSE /\ rqs_lock' = t
            /\ pc' = [pc EXCEPT ![t] = "a_send"]
            /\ arg' = [arg EXCEPT ![t] = IF meta = "some" THEN 1 ELSE 0]
            /\ ret' = [ret EXCEPT ![t] = "none"]
  /\ UNCHANGED <<endpoint_send, hub_lock, hub_poisoned, rqs_poisoned, num_chan,
                 num_tx, receiver_count, engine_tx, discovering, streams,
                 start_calls, stop_calls, msg_sent, msg_receivers,
                 sub_after_drop>>

\* lib.rs:118-127 / 134-143  .message_sender.send(ChannelMessage { id:
\* request.0.meta.as_ref().unwrap().id.clone(), .. }): the unwrap panics on
\* absent metadata with the guard held, which poisons the lock; otherwise
\* the send succeeds or fails with Other
TransferSend(t) ==
  /\ pc[t] = "a_send"
  /\ IF arg[t] = 0
       THEN /\ rqs_poisoned' = TRUE
            /\ ret' = [ret EXCEPT ![t] = Panicked]
            /\ UNCHANGED msg_sent
       ELSE /\ \E outcome \in {Ok, Other} :
                 /\ ret' = [ret EXCEPT ![t] = outcome]
                 /\ msg_sent' = IF outcome = Ok THEN msg_sent + 1 ELSE msg_sent
            /\ UNCHANGED rqs_poisoned
  /\ rqs_lock' = 0
  /\ pc' = [pc EXCEPT ![t] = "idle"]
  /\ arg' = [arg EXCEPT ![t] = 0]
  /\ UNCHANGED <<endpoint_send, hub_lock, hub_poisoned, num_chan, num_tx,
                 receiver_count, engine_tx, discovering, streams, num_calls,
                 start_calls, stop_calls, msg_receivers, sub_after_drop>>

\* lib.rs:239-246  get_transfer_requests: lock rqs (CorruptedState when
\* poisoned) and subscribe to message_sender
GetTransferRequests(t) ==
  /\ pc[t] = "idle"
  /\ num_calls < MaxCalls
  /\ num_calls' = num_calls + 1
  /\ RqsLockFree
  /\ IF rqs_poisoned
       THEN /\ ret' = [ret EXCEPT ![t] = CorruptedState]
            /\ UNCHANGED msg_receivers
       ELSE /\ ret' = [ret EXCEPT ![t] = Ok]
            /\ msg_receivers' = msg_receivers + 1
  /\ UNCHANGED <<endpoint_send, hub_lock, hub_poisoned, rqs_lock, rqs_poisoned,
                 num_chan, num_tx, receiver_count, engine_tx, discovering,
                 streams, pc, arg, start_calls, stop_calls, msg_sent,
                 sub_after_drop>>

\* ---------------------------------------------------- lib.rs: Oxidrop::new
\* lib.rs:101-105  fresh locks; endpoint_send is the weak form of a sender
\* that is dropped at once, so it does not upgrade
InitHub ==
  /\ endpoint_send = 0
  /\ hub_lock = 0
  /\ hub_poisoned = FALSE
  /\ rqs_lock = 0
  /\ rqs_poisoned = FALSE
  /\ num_chan = 0
  /\ num_tx = [c \in Chans |-> 0]
  /\ receiver_count = [c \in Chans |-> 0]
  /\ engine_tx = [c \in Chans |-> "none"]
  /\ discovering = FALSE
  /\ streams = [s \in Sids |-> [st |-> "free", ch |-> 0]]
  /\ pc = [t \in Threads |-> "idle"]
  /\ arg = [t \in Threads |-> 0]
  /\ ret = [t \in Threads |-> "none"]
  /\ num_calls = 0
  /\ start_calls = 0
  /\ stop_calls = 0
  /\ msg_sent = 0
  /\ msg_receivers = 0
  /\ sub_after_drop = FALSE

None == -1           \* Option::None of list_state.selected

\* an Endpoint or TransferRequest: its id and the rest of its fields.  In
\* send mode alt tells two values of one id apart (name, address); in
\* receive mode alt = 1 is a request whose metadata is absent.
Items == [id : ItemIds, alt : 0..1]
NoItem == [id |-> 0, alt |-> 0]

\* the event loop of main.rs is not running
LoopOff ==
  /\ mode = "off"
  /\ items = <<>>
  /\ selected = None
  /\ num_dots = 1
  /\ loop = "quit"
  /\ last_ev = "none"
  /\ last_item = NoItem
  /\ num_actions = 0
  /\ issued = NoItem
  /\ scen = -1

\* an endpoint event with no content: nothing was yielded yet
NoEvent == [id |-> 0, ip |-> FALSE, port |-> FALSE]

\* do_send is not running
MainOff ==
  /\ main_pc = "off"
  /\ exit_idx = 0

\* main.rs:134, 213  the loop is entered; its stream is not modelled
InLoop ==
  /\ main_pc = "loop"
  /\ exit_idx = 0

\* no broadcast stream is followed
ChanOff ==
  /\ buf = <<>>
  /\ lagged = FALSE
  /\ num_emits = 0
  /\ sent_ok = 0
  /\ yielded = 0
  /\ last_yield = NoEvent
  /\ full_ids = {}

\* the merged stream is not followed
MergeOff ==
  /\ produced = [s \in {"net", "key"} |-> 0]
  /\ delivered = [s \in {"net", "key"} |-> 0]
  /\ net_done = FALSE
  /\ a_first = [m \in {"inner", "outer"} |-> TRUE]
  /\ tick_ready = FALSE
  /\ out = [kind |-> "unpolled", src |-> "none", n |-> 0]

NextHub ==
  \/ \E t \in Threads : DiscoverBegin(t) /\ UNCHANGED nonHubVars
  \/ \E t \in Threads : DiscoverLock(t) /\ UNCHANGED nonHubVars
  \/ \E t \in Threads : DiscoverCheck(t) /\ UNCHANGED nonHubVars
  \/ \E t \in Threads : DiscoverSubscribe(t) /\ UNCHANGED nonHubVars
  \/ \E t \in Threads : DiscoverReturn(t) /\ UNCHANGED nonHubVars
  \/ \E t \in Threads : DiscoverLockRqs(t) /\ UNCHANGED nonHubVars
  \/ \E t \in Threads : DiscoverStart(t) /\ UNCHANGED nonHubVars
  \/ \E t \in Threads, s \in Sids : DropUpgrade(t, s) /\ UNCHANGED nonHubVars
  \/ \E t \in Threads : DropCount(t) /\ UNCHANGED nonHubVars
  \/ \E t \in Threads : DropLockRqs(t) /\ UNCHANGED nonHubVars
  \/ \E t \in Threads : DropStop(t) /\ UNCHANGED nonHubVars
  \/ \E t \in Threads : DropRelease(t) /\ UNCHANGED nonHubVars
  \/ \E c \in Chans : EngineRelease(c) /\ UNCHANGED nonHubVars
  \/ \E t \in Threads, a \in {"AcceptTransfer", "RejectTransfer"}, m \in Metas :
       TransferLock(t, a, m) /\ UNCHANGED nonHubVars
  \/ \E t \in Threads : TransferSend(t) /\ UNCHANGED nonHubVars
  \/ \E t \in Threads : GetTransferRequests(t) /\ UNCHANGED nonHubVars

\* Oxidrop::new has run and no event loop is started
InitLibrary == InitHub /\ LoopOff /\ MainOff /\ ChanOff /\ MergeOff

SpecHub == InitLibrary /\ [][NextHub]_vars

\* the steps that carry on an operation thread t has started
ThreadStep(t) ==
  \/ DiscoverLock(t)
  \/ DiscoverCheck(t)
  \/ DiscoverSubscribe(t)
  \/ DiscoverReturn(t)
  \/ DiscoverLockRqs(t)
  \/ DiscoverStart(t)
  \/ DropCount(t)
  \/ DropLockRqs(t)
  \/ DropStop(t)
  \/ DropRelease(t)
  \/ TransferSend(t)

\* a thread that can take its next step is scheduled in the end; a thread
\* waiting at Mutex::lock gets the lock once it stays free
SpecHubFair ==
  /\ InitLibrary
  /\ [][NextHub]_vars
  /\ \A t \in Threads : WF_vars(ThreadStep(t) /\ UNCHANGED nonHubVars)

\* =========================================================== main.rs

\* lib.rs:54-58, 68-72  PartialEq for Endpoint / TransferRequest: by id only
EqWholeValue(a, b) == a = b
Eq(a, b) == a.id = b.id

\* main.rs:137, 216  IndexSet::insert: appended unless an equal item is there
Insert(set, e) ==
  IF \E i \in 1..Len(set) : Eq(set[i], e) THEN set ELSE Append(set, e)

\* main.rs:146, 228  ListState::select_next:
\* selected.map_or(0, |i| i.saturating_add(1))
SelectNextByTwo(sel) ==
  IF sel = None THEN 1 ELSE IF sel + 2 > UsizeMax THEN UsizeMax ELSE sel + 2
SelectNext(sel) ==
  IF sel = None THEN 0 ELSE IF sel + 1 > UsizeMax THEN UsizeMax ELSE sel + 1

\* main.rs:142, 222  ListState::select_previous:
\* selected.map_or(usize::MAX, |i| i.saturating_sub(1))
SelectPrevious(sel) ==
  IF sel = None THEN UsizeMax ELSE IF sel = 0 THEN 0 ELSE sel - 1

\* main.rs:110-119, 191-202  render_send / render_receive: an empty list
\* draws the placeholder line and leaves list_state alone; otherwise the List
\* widget is rendered with list_state, which brings a selection past the end
\* back to the last item
RenderNoClamp(set, sel) == sel
Render(set, sel) ==
  IF set = <<>> THEN sel
  ELSE IF sel >= Len(set) THEN Len(set) - 1
  ELSE sel

\* term.lock().unwrap().draw(|f| render(&mut state, f))?  The draw succeeds
\* and the loop goes on, or it fails (before or after the frame was rendered)
\* and the error ends the loop.
Draw(set, sel) ==
  \E drawn \in BOOLEAN :
    /\ loop' = IF drawn THEN "running" ELSE "failed"
    /\ selected' \in IF drawn THEN {Render(set, sel)} ELSE {sel, Render(set, sel)}

\* the script of spec section 8.6: requests 1, 2, 3 arrive in that order,
\* then Down, Down, Confirm; Tick and Resize do not count
ScenAfter(ev, id) ==
  IF ev \in {"Tick", "Resize"} THEN scen
  ELSE IF ev = "New" /\ scen \in 0..2 /\ id = scen + 1 THEN scen + 1
  ELSE IF ev = "Down" /\ scen \in 3..4 THEN scen + 1
  ELSE IF ev = "Confirm" /\ scen = 5 THEN 6
  ELSE -1

Took(ev, e) ==
  /\ loop = "running"
  /\ last_ev' = ev
  /\ last_item' = e
  /\ scen' = ScenAfter(ev, e.id)
  /\ UNCHANGED <<mode, hubVars, mainVars, mergeVars>>

\* main.rs:136-140, 215-220  NewEndpoint(e) / NewTransferRequest(req)
NewItem(e) ==
  /\ Took("New", e)
  /\ items' = Insert(items, e)
  /\ Draw(items', selected)
  /\ issued' = NoItem
  /\ UNCHANGED <<num_dots, num_actions>>

\* main.rs:141-144, 221-226
Up ==
  /\ Took("Up", NoItem)
  /\ Draw(items, SelectPrevious(selected))
  /\ issued' = NoItem
  /\ UNCHANGED <<items, num_dots, num_actions>>

\* main.rs:145-148, 227-232
Down ==
  /\ Took("Down", NoItem)
  /\ Draw(items, SelectNext(selected))
  /\ issued' = NoItem
  /\ UNCHANGED <<items, num_dots, num_actions>>

\* main.rs:149-155  Confirm in do_send: continue when nothing is selected;
\* state.endpoints[i] panics when i is past the end; send_files (lib.rs:
\* 146-171) returns Ok or Other, and the error ends the loop
ConfirmSend ==
  /\ mode = "send"
  /\ num_actions < MaxConfirms
  /\ Took("Confirm", NoItem)
  /\ IF selected = None
       THEN /\ issued' = NoItem
            /\ UNCHANGED <<loop, num_actions>>
       ELSE IF selected >= Len(items)
         THEN /\ loop' = "panicked"
              /\ issued' = NoItem
              /\ UNCHANGED num_actions
         ELSE /\ num_actions' = num_actions + 1
              /\ issued' = items[selected + 1]
              /\ loop' \in {"running", "failed"}
  /\ UNCHANGED <<items, selected, num_dots>>

\* main.rs:233-238  Confirm in do_receive: as above with accept_transfer
\* (lib.rs:114-128), which panics on a request without metadata and else
\* returns Ok, Other or CorruptedState
ConfirmReceive ==
  /\ mode = "receive"
  /\ num_actions < MaxConfirms
  /\ Took("Confirm", NoItem)
  /\ IF selected = None
       THEN /\ issued' = NoItem
            /\ UNCHANGED <<loop, num_actions>>
       ELSE IF selected >= Len(items)
         THEN /\ loop' = "panicked"
              /\ issued' = NoItem
              /\ UNCHANGED num_actions
         ELSE /\ num_actions' = num_actions + 1
              /\ issued' = items[selected + 1]
              /\ IF items[selected + 1].alt = 1
                   THEN loop' = "panicked"
                   ELSE loop' \in {"running", "failed"}
  /\ UNCHANGED <<items, selected, num_dots>>

\* main.rs:156-158, 239
QuitIgnored ==
  /\ Took("Quit", NoItem)
  /\ loop' = "running"
  /\ issued' = NoItem
  /\ UNCHANGED <<items, selected, num_dots, num_actions>>
Quit ==
  /\ Took("Quit", NoItem)
  /\ loop' = "quit"
  /\ issued' = NoItem
  /\ UNCHANGED <<items, selected, num_dots, num_actions>>

\* main.rs:159-161, 240-244
Resize ==
  /\ Took("Resize", NoItem)
  /\ Draw(items, selected)
  /\ issued' = NoItem
  /\ UNCHANGED <<items, num_dots, num_actions>>

\* main.rs:162-165, 245-250
TickOfFour ==
  /\ Took("Tick", NoItem)
  /\ num_dots' = (num_dots % 4) + 1
  /\ Draw(items, selected)
  /\ issued' = NoItem
  /\ UNCHANGED <<items, num_actions>>
Tick ==
  /\ Took("Tick", NoItem)
  /\ num_dots' = (num_dots % 3) + 1
  /\ Draw(items, selected)
  /\ issued' = NoItem
  /\ UNCHANGED <<items, num_actions>>

\* main.rs:166, 251  AppEvent::Error(e) => Err(e)?
Error ==
  /\ Took("Error", NoItem)
  /\ loop' = "failed"
  /\ issued' = NoItem
  /\ UNCHANGED <<items, selected, num_dots, num_actions>>

\* main.rs:59-69  AppState::new
NewAppState ==
  /\ items = <<>>
  /\ selected = None
  /\ num_dots = 1
  /\ loop = "running"
  /\ last_ev = "none"
  /\ last_item = NoItem
  /\ num_actions = 0
  /\ issued = NoItem

\* main.rs:127, 206  do_send or do_receive starts; the script is not followed
InitLoop ==
  /\ mode \in {"send", "receive"}
  /\ NewAppState
  /\ scen = -1

\* main.rs:206  do_receive starts, at the beginning of the script
InitReceive ==
  /\ mode = "receive"
  /\ NewAppState
  /\ scen = 0

\* the requests of the script of spec section 8.6, with or without metadata
ScriptItems == [id : 1..3, alt : 0..1]

NextLoop ==
  \/ \E e \in Items : NewItem(e) /\ UNCHANGED chanVars
  \/ Up /\ UNCHANGED chanVars
  \/ Down /\ UNCHANGED chanVars
  \/ ConfirmSend /\ UNCHANGED chanVars
  \/ ConfirmReceive /\ UNCHANGED chanVars
  \/ Quit /\ UNCHANGED chanVars
  \/ Resize /\ UNCHANGED chanVars
  \/ Tick /\ UNCHANGED chanVars
  \/ Error /\ UNCHANGED chanVars

\* main.rs:213-254  the loop of do_receive fed the script's requests
NextReceive ==
  \/ \E e \in ScriptItems : NewItem(e) /\ UNCHANGED chanVars
  \/ Up /\ UNCHANGED chanVars
  \/ Down /\ UNCHANGED chanVars
  \/ ConfirmReceive /\ UNCHANGED chanVars
  \/ Quit /\ UNCHANGED chanVars
  \/ Resize /\ UNCHANGED chanVars
  \/ Tick /\ UNCHANGED chanVars
  \/ Error /\ UNCHANGED chanVars

\* main.rs:278-282  Oxidrop::new, then do_send or do_receive
InitMain == InitHub /\ InitLoop /\ InLoop /\ ChanOff /\ MergeOff

SpecLoop == InitMain /\ [][NextLoop]_vars

\* main.rs:278-281  Oxidrop::new, then do_receive
InitMainReceive == InitHub /\ InitReceive /\ InLoop /\ ChanOff /\ MergeOff

SpecReceive == InitMainReceive /\ [][NextReceive]_vars

\* ============================================ main.rs: do_send as a whole

\* main.rs:122-128  do_send's values in the order they are dropped when the
\* function returns: the locals in reverse order of declaration (stream,
\* state), then the parameters (files, term, oxidrop)
DropOrderOxidropFirst == <<"oxidrop", "term", "files", "stream", "state">>
DropOrder == <<"stream", "state", "files", "term", "oxidrop">>

\* the task that runs do_send
MainThread == 1

\* lib.rs:195  self.1.upgrade(): the Arc<Mutex<RQS>> lives in the Oxidrop
\* value and is gone once that is dropped
RqsAlive ==
  \A k \in 1..Len(DropOrder) :
    DropOrder[k] = "oxidrop" => (exit_idx = 0 \/ exit_idx <= k)

\* main.rs:128-129  oxidrop.discover_endpoints()?  While the call runs
\* do_send waits; Ok enters the loop, an error (or a panic) leaves do_send
AfterDiscover ==
  /\ main_pc = "discover"
  /\ main_pc' = IF pc'[MainThread] # "idle" THEN "discover"
                ELSE IF ret'[MainThread] = Ok THEN "loop" ELSE "exit"
  /\ exit_idx' = IF pc'[MainThread] = "idle" /\ ret'[MainThread] # Ok THEN 1 ELSE 0
  /\ UNCHANGED <<loopVars, chanVars, mergeVars>>

\* main.rs:134  the loop takes an event
InSendLoop ==
  /\ main_pc = "loop"
  /\ UNCHANGED chanVars

\* main.rs:139-171  the while loop is left: by break, by `?` or by a panic
LeaveLoop ==
  /\ main_pc = "loop"
  /\ loop # "running"
  /\ main_pc' = "exit"
  /\ exit_idx' = 1
  /\ UNCHANGED <<hubVars, loopVars, chanVars, mergeVars>>

\* main.rs:172  a value with nothing to do on drop is dropped (also the place
\* of the stream when discover_endpoints returned none, or once its drop ran)
DropValue ==
  /\ main_pc = "exit"
  /\ pc[MainThread] = "idle"
  /\ ~(DropOrder[exit_idx] = "stream" /\ streams[1].st = "live")
  /\ exit_idx' = exit_idx + 1
  /\ main_pc' = IF exit_idx = Len(DropOrder) THEN "done" ELSE "exit"
  /\ UNCHANGED <<hubVars, loopVars, chanVars, mergeVars>>

\* main.rs:172, lib.rs:194-196  the stream is dropped: StreamWrapper::drop
\* runs; when self.1.upgrade() finds no engine the body is skipped
DropStream ==
  /\ main_pc = "exit"
  /\ DropOrder[exit_idx] = "stream"
  /\ IF RqsAlive
       THEN DropUpgrade(MainThread, 1)
       ELSE /\ pc[MainThread] = "idle"
            /\ streams[1].st = "live"
            /\ streams' = [streams EXCEPT ![1].st = "dropping"]
            /\ arg' = [arg EXCEPT ![MainThread] = 1]
            /\ ret' = [ret EXCEPT ![MainThread] = "none"]
            /\ pc' = [pc EXCEPT ![MainThread] = "x_release"]
            /\ UNCHANGED <<endpoint_send, hub_lock, hub_poisoned, rqs_lock,
                           rqs_poisoned, num_chan, num_tx, receiver_count,
                           engine_tx, discovering, num_calls, start_calls,
                           stop_calls, msg_sent, msg_receivers, sub_after_drop>>
  /\ UNCHANGED nonHubVars

\* lib.rs:197-204  the rest of the drop runs while do_send is returning
InExit ==
  /\ main_pc = "exit"
  /\ UNCHANGED nonHubVars

\* main.rs:127-129  do_send is called: AppState::new, then discover_endpoints
InitSend ==
  /\ InitHub
  /\ mode = "send"
  /\ NewAppState
  /\ scen = -1
  /\ main_pc = "discover"
  /\ exit_idx = 0
  /\ ChanOff
  /\ MergeOff

NextSend ==
  \/ DiscoverBegin(MainThread) /\ AfterDiscover
  \/ DiscoverLock(MainThread) /\ AfterDiscover
  \/ DiscoverCheck(MainThread) /\ AfterDiscover
  \/ DiscoverLockRqs(MainThread) /\ AfterDiscover
  \/ DiscoverStart(MainThread) /\ AfterDiscover
  \/ \E e \in Items : NewItem(e) /\ InSendLoop
  \/ Up /\ InSendLoop
  \/ Down /\ InSendLoop
  \/ ConfirmSend /\ InSendLoop
  \/ Quit /\ InSendLoop
  \/ Resize /\ InSendLoop
  \/ Tick /\ InSendLoop
  \/ Error /\ InSendLoop
  \/ LeaveLoop
  \/ DropStream
  \/ DropCount(MainThread) /\ InExit
  \/ DropLockRqs(MainThread) /\ InExit
  \/ DropStop(MainThread) /\ InExit
  \/ DropRelease(MainThread) /\ InExit
  \/ DropValue
  \/ \E c \in Chans : EngineRelease(c) /\ UNCHANGED nonHubVars

SpecSend == InitSend /\ [][NextSend]_vars

\* ===================== lib.rs: the two broadcast streams and their filters
\* One Receiver is followed.  tokio's broadcast channel keeps the newest
\* messages only: a send into a full channel overwrites the oldest one, and a
\* Receiver that had not read it gets Err(Lagged) from its next recv and goes
\* on from the oldest message still kept.

\* broadcast::Sender::send(m)
ChanSend(m) ==
  /\ num_emits < MaxEmits
  /\ num_emits' = num_emits + 1
  /\ IF Len(buf) = Capacity
       THEN /\ buf' = Append(Tail(buf), m)
            /\ lagged' = TRUE
       ELSE /\ buf' = Append(buf, m)
            /\ UNCHANGED lagged

\* EndpointInfo as the engine sends it: ip and port may be absent
RawEvents == [id : ItemIds, ip : BOOLEAN, port : BOOLEAN]

\* lib.rs:231  .filter(|e| e.ip.is_some() && e.port.is_some())
PassesEndpoint(e) == e.ip /\ e.port

\* the engine's discovery sends e on the sender clone given at lib.rs:220
EmitEndpoint(e) ==
  /\ ChanSend(e)
  /\ sent_ok' = IF e.ip /\ e.port THEN sent_ok + 1 ELSE sent_ok
  /\ full_ids' = IF e.ip /\ e.port THEN full_ids \cup {e.id} ELSE full_ids
  /\ UNCHANGED <<yielded, last_yield, hubVars, loopVars, mainVars, mergeVars>>

\* lib.rs:228-233 and main.rs:130, 134-140  the loop polls the discovery
\* stream: Err(Lagged) is dropped by r.ok(); a received event that fails the
\* filter is dropped; one that passes is yielded as Endpoint(e), mapped to
\* NewEndpoint and handled by the loop
RecvEndpoint ==
  /\ loop = "running"
  /\ IF lagged
       THEN /\ lagged' = FALSE
            /\ UNCHANGED <<buf, yielded, last_yield, loopVars, hubVars,
                           mainVars, mergeVars>>
       ELSE /\ buf # <<>>
            /\ buf' = Tail(buf)
            /\ UNCHANGED lagged
            /\ IF PassesEndpoint(Head(buf))
                 THEN /\ yielded' = yielded + 1
                      /\ last_yield' = Head(buf)
                      /\ NewItem([id |-> Head(buf).id, alt |-> 0])
                 ELSE UNCHANGED <<yielded, last_yield, loopVars, hubVars,
                                  mainVars, mergeVars>>
  /\ UNCHANGED <<num_emits, sent_ok, full_ids>>

\* main.rs:127-134  do_send runs its loop on the stream of a
\* discover_endpoints call that started discovery
InitEndpoints ==
  /\ InitHub
  /\ mode = "send"
  /\ NewAppState
  /\ scen = -1
  /\ InLoop
  /\ ChanOff
  /\ MergeOff

NextEndpoints ==
  \/ \E e \in RawEvents : EmitEndpoint(e)
  \/ RecvEndpoint

SpecEndpoints == InitEndpoints /\ [][NextEndpoints]_vars

\* ChannelMessage as sent on message_sender: direction, rtype and state
\* (Option fields absent as "none"; "Outbound" and "Finished" stand for
\* the other values of TransferType and State)
Messages ==
  [dir : {"LibToFront", "FrontToLib"},
   rtype : {"Inbound", "Outbound", "none"},
   state : {"WaitingForUserConsent", "Finished", "none"}]
NoMessage == [dir |-> "none", rtype |-> "none", state |-> "none"]

\* lib.rs:249-255  the match on (&msg.direction, &msg.rtype, &msg.state)
PassesRequest(m) ==
  /\ m.dir = "LibToFront"
  /\ m.rtype = "Inbound"
  /\ m.state = "WaitingForUserConsent"

\* a message is sent on message_sender by the engine
EmitMessage(m) ==
  /\ ChanSend(m)
  /\ sent_ok' = IF m.dir = "LibToFront" /\ m.rtype = "Inbound"
                     /\ m.state = "WaitingForUserConsent"
                  THEN sent_ok + 1 ELSE sent_ok
  /\ UNCHANGED <<yielded, last_yield, full_ids, hubVars, loopVars, mainVars,
                 mergeVars>>

\* lib.rs:118-125, 134-141  accept_transfer / reject_transfer send
\* ChannelMessage { direction: FrontToLib, action, ..Default::default() }
\* on the same message_sender
SendControl ==
  /\ ChanSend([dir |-> "FrontToLib", rtype |-> "none", state |-> "none"])
  /\ UNCHANGED <<sent_ok, yielded, last_yield, full_ids, hubVars, loopVars,
                 mainVars, mergeVars>>

\* lib.rs:240-257  the stream of get_transfer_requests is polled:
\* Err(Lagged) is dropped by r.ok(), a message that fails the match is
\* dropped, one that passes is yielded as TransferRequest(msg)
RecvMessage ==
  /\ IF lagged
       THEN /\ lagged' = FALSE
            /\ UNCHANGED <<buf, yielded, last_yield>>
       ELSE /\ buf # <<>>
            /\ buf' = Tail(buf)
            /\ UNCHANGED lagged
            /\ IF PassesRequest(Head(buf))
                 THEN /\ yielded' = yielded + 1
                      /\ last_yield' = Head(buf)
                 ELSE UNCHANGED <<yielded, last_yield>>
  /\ UNCHANGED <<num_emits, sent_ok, full_ids, hubVars, loopVars, mainVars,
                 mergeVars>>

\* lib.rs:239-246  get_transfer_requests has returned its stream; the loop
\* that consumes it is not followed
InitRequests ==
  /\ InitHub
  /\ LoopOff
  /\ MainOff
  /\ MergeOff
  /\ buf = <<>>
  /\ lagged = FALSE
  /\ num_emits = 0
  /\ sent_ok = 0
  /\ yielded = 0
  /\ last_yield = NoMessage
  /\ full_ids = {}

NextRequests ==
  \/ \E m \in Messages : EmitMessage(m)
  \/ SendControl
  \/ RecvMessage

SpecRequests == InitRequests /\ [][NextRequests]_vars

\* ================================== main.rs: the merged stream (128-132)
\* stream = net.merge(key).merge(timer): the outer Merge has the inner Merge
\* (network, keyboard) as its a and the interval stream as its b.

\* what polling a stream returns: Ready(Some(item)), Ready(None) or Pending
Some(s, n) == [kind |-> "some", src |-> s, n |-> n]
Ended == [kind |-> "none", src |-> "none", n |-> 0]
Pending == [kind |-> "pending", src |-> "none", n |-> 0]

\* main.rs:129-131  polling the mapped discovery stream or the input stream:
\* the oldest event not yet taken; the discovery stream ends once its
\* channel is closed and drained, the input stream does not end
SourcePoll(s) ==
  IF delivered[s] < produced[s] THEN Some(s, delivered[s] + 1)
  ELSE IF s = "net" /\ net_done THEN Ended
  ELSE Pending

\* main.rs:90-92  polling the interval stream: it does not end
TimerPoll == IF tick_ready THEN Some("timer", 0) ELSE Pending

\* Merge::poll_next: the side chosen by a_first is polled first and its item
\* returned; else the other side's; Ready(None) only when both have ended
MergePoll(flag, ra, rb) ==
  LET first == IF flag THEN ra ELSE rb
      second == IF flag THEN rb ELSE ra
  IN  IF first.kind = "some" THEN first
      ELSE IF second.kind = "some" THEN second
      ELSE IF first.kind = "none" /\ second.kind = "none" THEN Ended
      ELSE Pending

\* Merge::poll_next: *me.a_first = !a_first, on every poll of that Merge
ToggleStuck(flag) == FALSE
Toggle(flag) == ~flag

\* main.rs:134  stream.next().await polls the outer Merge; the inner Merge
\* is polled (and its flag toggled) unless the interval came first and had
\* a tick
Poll ==
  LET inner == MergePoll(a_first["inner"], SourcePoll("net"), SourcePoll("key"))
      res == MergePoll(a_first["outer"], inner, TimerPoll)
      inner_polled == a_first["outer"] \/ TimerPoll.kind # "some"
  IN  /\ out' = res
      /\ a_first' = [inner |-> IF inner_polled THEN Toggle(a_first["inner"])
                                ELSE a_first["inner"],
                     outer |-> Toggle(a_first["outer"])]
      /\ delivered' = IF res.kind = "some" /\ res.src # "timer"
                        THEN [delivered EXCEPT ![res.src] = @ + 1]
                        ELSE delivered
      /\ tick_ready' = IF res.kind = "some" /\ res.src = "timer"
                         THEN FALSE ELSE tick_ready
      /\ UNCHANGED <<produced, net_done>>

\* the engine sends an endpoint that passes the filter, or a key is pressed
Emit(s) ==
  /\ produced[s] < MaxEvents
  /\ s = "net" => ~net_done
  /\ produced' = [produced EXCEPT ![s] = @ + 1]
  /\ UNCHANGED <<delivered, net_done, a_first, tick_ready, out>>

\* the discovery channel's last sender is dropped: the stream ends after
\* the events still in the channel
NetEnd ==
  /\ ~net_done
  /\ net_done' = TRUE
  /\ UNCHANGED <<produced, delivered, a_first, tick_ready, out>>

\* main.rs:91  the interval's next second has elapsed
TimerFire ==
  /\ ~tick_ready
  /\ tick_ready' = TRUE
  /\ UNCHANGED <<produced, delivered, net_done, a_first, out>>

\* main.rs:128-132  the merged stream is built; the loop that polls it is
\* not followed
InitMerge == InitHub /\ LoopOff /\ MainOff /\ ChanOff /\ MergeOff

nonMergeVars == <<hubVars, loopVars, mainVars, chanVars>>

NextMerge ==
  \/ Poll /\ UNCHANGED nonMergeVars
  \/ \E s \in {"net", "key"} : Emit(s) /\ UNCHANGED nonMergeVars
  \/ NetEnd /\ UNCHANGED nonMergeVars
  \/ TimerFire /\ UNCHANGED nonMergeVars

\* the loop awaits stream.next() again after every event, and the runtime
\* polls the task whenever a source has something
SpecMerge ==
  /\ InitMerge
  /\ [][NextMerge]_vars
  /\ WF_vars(Poll /\ UNCHANGED nonMergeVars)

\* ======================================================= claims, SpecHub

\* C1 (as stated): when N >= 1 discover_endpoints calls have returned their
\* streams and only then the N streams are disposed, in any interleaving of
\* the disposals' steps, stop_discovery is called only by a disposal that
\* holds the last unreleased stream, never more than once, and exactly once
\* by the time every stream is disposed.
C1_StopExactlyOnceByLast ==
  ~sub_after_drop =>
    /\ \A t \in Threads :
         pc[t] \in {"x_lock", "x_stop"} => Unreleased = {arg[t]}
    /\ stop_calls <= 1
    /\ (Idle /\ Returned # {} /\ \A s \in Returned : streams[s].st = "dead")
         => stop_calls = 1

\* C2 (as stated): whenever no call and no disposal is in progress, discovery
\* is running if and only if some returned stream is still live.
C2_RunningIffLive ==
  Idle => (discovering <=> Live # {})

\* C3 (as stated): a discover_endpoints call that finds no live subscription
\* at its check creates the channel and starts discovery, and a call takes
\* the create-and-start path only when no subscription is live.
C3_StartsExactlyAtZero ==
  [][\A t \in Threads :
       /\ (pc[t] = "d_check" /\ pc'[t] = "d_sub") => Unreleased # {}
       /\ (pc[t] = "d_check" /\ pc'[t] = "d_rqs") => Live = {}]_vars

\* C4: concurrent discover_endpoints calls are serialised by the hub lock
\* from the check of the weak handle to the end of the call: at most one call
\* is past the lock, discovery is never started twice without a
\* stop_discovery in between, at most one channel has its sender with a
\* running engine, a reusing call registers on the channel the hub names, and
\* until the first stop_discovery every returned stream is on one channel.
C4_OneCreatorUnderLock ==
  /\ Cardinality({t \in Threads : InCritical(t)}) <= 1
  /\ \A t \in Threads : InCritical(t) => hub_lock = t
  /\ start_calls <= stop_calls + 1
  /\ Cardinality({c \in Chans : engine_tx[c] = "held"}) <= 1
  /\ \A t \in Threads : pc[t] \in {"d_sub", "d_ret"} => arg[t] = endpoint_send
  /\ stop_calls = 0 =>
       \A s1 \in Returned, s2 \in Returned : streams[s1].ch = streams[s2].ch

\* two calls race while no channel is live: one has created the channel and
\* is starting discovery, the other waits at the hub lock
C4_Witness ==
  \E t1 \in Threads, t2 \in Threads :
    /\ pc[t1] = "d_start" /\ pc[t2] = "d_lock"
    /\ num_chan = 1 /\ Returned = {} /\ start_calls = 0

\* C5 (as stated): once a lock is poisoned, every operation that acquires it
\* returns CorruptedState and goes no further: with the engine lock poisoned
\* no step takes its guard and the engine is not started, stopped, messaged
\* or subscribed to; with the hub lock poisoned discover_endpoints returns
\* CorruptedState at the lock.
C5_PoisonedLockSurfaced ==
  [][/\ rqs_poisoned =>
          /\ start_calls' = start_calls
          /\ stop_calls' = stop_calls
          /\ msg_sent' = msg_sent
          /\ msg_receivers' = msg_receivers
          /\ \A t \in Threads :
               /\ pc'[t] \in {"d_start", "x_stop", "a_send"} => pc'[t] = pc[t]
               /\ (pc[t] = "d_rqs" /\ pc'[t] # "d_rqs") => ret'[t] = CorruptedState
     /\ hub_poisoned =>
          \A t \in Threads :
            (pc[t] = "d_lock" /\ pc'[t] # "d_lock")
              => (pc'[t] = "idle" /\ ret'[t] = CorruptedState)]_vars

\* C18: no interleaving deadlocks.  A thread holds the engine lock exactly
\* while it starts, stops or messages the engine and waits for nothing then;
\* a thread holds the hub lock exactly from discover_endpoints' check to its
\* return, so the two are nested only hub-then-engine; a disposal and a
\* transfer call hold the engine lock alone; a thread waiting for the hub
\* lock holds no lock; with no operation in progress both locks are free; and
\* every started operation completes.
C18_NoDeadlock ==
  /\ [](/\ \A t \in Threads :
             /\ pc[t] \in {"d_start", "x_stop", "a_send"} <=> rqs_lock = t
             /\ InCritical(t) <=> hub_lock = t
             /\ pc[t] \in {"x_count", "x_lock", "x_stop", "x_release", "a_send"}
                  => hub_lock # t
        /\ Idle => (hub_lock = 0 /\ rqs_lock = 0))
  /\ \A t \in Threads : (pc[t] # "idle") ~> (pc[t] = "idle")

\* a discover_endpoints call holds the hub lock and waits for the engine
\* lock, which a transfer call on another thread holds
C18_Witness ==
  \E t1 \in Threads, t2 \in Threads :
    /\ pc[t1] = "d_rqs" /\ hub_lock = t1
    /\ pc[t2] = "a_send" /\ rqs_lock = t2

\* C19: a discover_endpoints call whose engine start fails returns Other,
\* hands out no stream and leaves the stored weak handle without a sender;
\* while a call is creating and starting a channel it alone holds the
\* channel's sender and receiver and no other call is past the hub lock; a
\* channel without a sender never gets one again; and a call that finds the
\* stored handle without a sender creates a channel and goes on to the start.
C19_FailedStartLeavesNoChannel ==
  [][/\ \A t \in Threads :
          /\ (pc[t] = "d_start" /\ pc'[t] = "idle" /\ ret'[t] = Other) =>
               /\ streams' = streams
               /\ start_calls' = start_calls
               /\ endpoint_send' = arg[t]
               /\ num_tx'[endpoint_send'] = 0
               /\ receiver_count'[arg[t]] = 0
               /\ hub_lock' = 0 /\ rqs_lock' = 0
          /\ pc[t] \in {"d_rqs", "d_start"} =>
               /\ num_tx[arg[t]] = 1 /\ receiver_count[arg[t]] = 1
               /\ \A u \in Threads \ {t} : ~InCritical(u)
          /\ (pc[t] = "d_check" /\ pc'[t] # "d_check" /\ num_tx[endpoint_send] = 0) =>
               /\ pc'[t] = "d_rqs"
               /\ num_chan' = num_chan + 1
               /\ endpoint_send' = num_chan'
     /\ \A c \in Chans : (c <= num_chan /\ num_tx[c] = 0) => num_tx'[c] = 0]_vars

\* a first call's start failed and the next call has created a second
\* channel and is starting discovery on it
C19_Witness ==
  \E t \in Threads :
    /\ pc[t] = "d_start" /\ num_chan = 2 /\ start_calls = 0
    /\ \E u \in Threads : ret[u] = Other

\* C20 (as stated): accept_transfer and reject_transfer, past the engine
\* lock, return Ok after sending exactly one control message, or return an
\* Error having sent none; they never end in a panic.
C20_TransferReturnsResult ==
  [][\A t \in Threads :
       (pc[t] = "a_send" /\ pc'[t] = "idle") =>
         /\ ret'[t] \in {Ok, Other, CorruptedState}
         /\ ret'[t] = Ok => msg_sent' = msg_sent + 1
         /\ ret'[t] # Ok => msg_sent' = msg_sent]_vars

\* ========================================= claims, SpecLoop, SpecReceive
Ids(set) == [i \in 1..Len(set) |-> set[i].id]
NoDuplicateIds(set) ==
  \A i \in 1..Len(set), j \in 1..Len(set) : set[i].id = set[j].id => i = j

\* C6 (as stated): whenever the loop takes its next event the cursor is unset
\* or indexes an item of the list; so with the list empty it is unset.
C6_CursorUnsetOrValid ==
  loop = "running" => (selected = None \/ (0 <= selected /\ selected < Len(items)))

\* C7 (as stated): a Confirm with the cursor unset changes nothing; otherwise
\* the cursor indexes an item, exactly one outward call is issued, for that
\* item, and the list and the cursor are unchanged.
C7_ConfirmActsOnCursorItem ==
  [][last_ev' = "Confirm" =>
       /\ items' = items
       /\ selected' = selected
       /\ IF selected = None
            THEN num_actions' = num_actions /\ loop' = loop
            ELSE /\ selected < Len(items)
                 /\ num_actions' = num_actions + 1
                 /\ issued' = items[selected + 1]]_vars

\* C8 (as stated): in receive mode, after requests 1, 2, 3 arrived in that
\* order the list reads [1, 2, 3], and after Down, Down, Confirm exactly one
\* accept_transfer call was issued, for request 3.
C8_AcceptsThird ==
  /\ scen >= 3 => Ids(items) = <<1, 2, 3>>
  /\ scen = 6 => num_actions = 1
  /\ (scen = 6 /\ last_ev = "Confirm") => issued.id = 3

\* C8 (amended): ... exactly one accept_transfer call was issued, for
\* request 2, the item at index 1: the first Down moves the unset cursor to
\* index 0 and the second to index 1.
C8_AcceptsSecond ==
  /\ scen >= 3 => Ids(items) = <<1, 2, 3>>
  /\ scen = 3 => selected = None
  /\ scen = 4 => selected = 0
  /\ scen = 5 => (selected = 1 /\ num_actions = 0)
  /\ scen = 6 => (selected = 1 /\ num_actions = 1)
  /\ (scen = 6 /\ last_ev = "Confirm") => issued.id = 2

C8_Witness ==
  scen = 6 /\ mode = "receive" /\ last_ev = "Confirm" /\ num_actions = 1
    /\ issued.id = 2
    /\ Ids(items) = <<1, 2, 3>>

\* C9: in a populated list of length L, a Down that is handled through its
\* render leaves a set cursor c at min(L-1, c+1) and an unset one at 0, an Up
\* leaves a set cursor at max(0, c-1) and an unset one at L-1, and the cursor
\* the next event finds is unset or within 0..L-1.
C9_CursorClamped ==
  [][(Len(items) >= 1 /\ loop' = "running") =>
       LET L == Len(items) IN
       /\ last_ev' = "Down" =>
            selected' = IF selected = None THEN 0
                        ELSE IF selected + 1 > L - 1 THEN L - 1 ELSE selected + 1
       /\ last_ev' = "Up" =>
            selected' = IF selected = None THEN L - 1
                        ELSE IF selected - 1 < 0 THEN 0 ELSE selected - 1
       /\ (selected' = None \/ (0 <= selected' /\ selected' <= Len(items') - 1))]_vars

\* an Up on an unset cursor in a list of two or more items was rendered and
\* left the cursor on the last item
C9_Witness ==
  /\ loop = "running" /\ last_ev = "Up"
  /\ Len(items) >= 2 /\ selected = Len(items) - 1

\* C10: the list never holds two items of one id; a New event whose item has
\* the id of an item in the list leaves the list as it was (the value first
\* inserted stays), and any other New event appends its item.
C10_InsertDedupById ==
  [][/\ NoDuplicateIds(items')
     /\ last_ev' = "New" =>
          IF \E i \in 1..Len(items) : items[i].id = last_item'.id
            THEN items' = items
            ELSE items' = Append(items, last_item')]_vars

\* a second value of id 1 was inserted and the list still holds only the first
C10_Witness ==
  /\ last_ev = "New" /\ last_item = [id |-> 1, alt |-> 1]
  /\ items = <<[id |-> 1, alt |-> 0]>>

\* C14: a Quit event ends the loop with success and an Error event ends it
\* with the error; neither touches the list, the cursor or the dot counter or
\* issues an outward call, and once the loop has ended no later event changes
\* the list, the cursor, the dot counter or the count of outward calls.
C14_QuitAndErrorEndTheLoop ==
  [][/\ last_ev' = "Quit" => loop' = "quit"
     /\ last_ev' = "Error" => loop' = "failed"
     /\ last_ev' \in {"Quit", "Error"} =>
          /\ items' = items /\ selected' = selected /\ num_dots' = num_dots
          /\ num_actions' = num_actions /\ issued' = NoItem
     /\ loop # "running" => UNCHANGED loopVars]_vars

\* a Quit was taken with the list populated and the cursor set
C14_Witness ==
  /\ last_ev = "Quit" /\ loop = "quit"
  /\ Len(items) >= 1 /\ selected # None

\* C15: the dot counter starts at 1 and stays in {1, 2, 3}; a Tick moves it
\* 1->2, 2->3, 3->1 with the list empty or populated and leaves the list and
\* the cursor as they were; no other event changes the counter.
C15_DotsCycleOnTick ==
  /\ num_dots = 1
  /\ [][/\ num_dots' \in {1, 2, 3}
        /\ IF last_ev' = "Tick"
             THEN /\ num_dots' = (IF num_dots = 3 THEN 1 ELSE num_dots + 1)
                  /\ items' = items
                  /\ selected' = selected
             ELSE num_dots' = num_dots]_vars

\* a Tick took the counter from 3 back to 1 while the list was populated
C15_Witness ==
  /\ last_ev = "Tick" /\ num_dots = 1 /\ loop = "running"
  /\ Len(items) >= 1

\* C17 (as stated): a New event never changes the cursor, and every event
\* leaves the list it found as a prefix of the list it leaves.
C17_InsertKeepsCursorAndPrefix ==
  [][/\ (last_ev' = "New" /\ loop' = "running") => selected' = selected
     /\ Len(items) <= Len(items')
     /\ SubSeq(items', 1, Len(items)) = items]_vars

\* ====================================================== claims, SpecSend

\* C13: the stream do_send consumes is disposed only while do_send returns,
\* its teardown check runs with the engine still there and before any stop,
\* stop_discovery is called at most once, discovery runs for as long as the
\* loop does, and once do_send has returned after the loop ended by Quit or
\* by an error the stream is disposed and discovery was stopped exactly once.
C13_LoopEndDisposesStream ==
  /\ pc[MainThread] \in {"x_count", "x_lock", "x_stop"} =>
       (main_pc = "exit" /\ RqsAlive /\ stop_calls = 0)
  /\ stop_calls <= 1
  /\ main_pc = "loop" => (streams[1].st = "live" /\ discovering)
  /\ (main_pc = "done" /\ loop \in {"quit", "failed"} /\ Returned # {}) =>
       /\ streams[1].st = "dead"
       /\ stop_calls = 1
       /\ ~discovering

\* the loop took an Error event with the list populated, and do_send has
\* returned with the stream disposed and discovery stopped
C13_Witness ==
  /\ main_pc = "done" /\ last_ev = "Error" /\ loop = "failed"
  /\ Len(items) >= 1
  /\ streams[1].st = "dead" /\ stop_calls = 1 /\ ~discovering

\* ===================================================== claims, SpecMerge

\* C16: the merged stream yields each source's events in the order the
\* source made them, skipping none and inventing none; it does not end while
\* a source has not ended (the keyboard and the timer never do, so it never
\* ends, also after the network stream has); and every event a source has
\* made is yielded in the end, whatever the other sources have ready.
C16_MergedStreamFair ==
  /\ [][\A s \in {"net", "key"} :
          /\ delivered'[s] \in {delivered[s], delivered[s] + 1}
          /\ delivered'[s] <= produced[s]
          /\ delivered'[s] # delivered[s] => out' = Some(s, delivered'[s])]_vars
  /\ [](out.kind # "none")
  /\ \A s \in {"net", "key"}, n \in 1..MaxEvents :
       (produced[s] >= n) ~> (delivered[s] >= n)
  /\ tick_ready ~> ~tick_ready

\* the network stream has ended and a key event was yielded although the
\* timer had a tick ready
C16_Witness ==
  /\ net_done /\ delivered["net"] = produced["net"]
  /\ out = Some("key", MaxEvents)
  /\ tick_ready

\* ======================================= claims, SpecEndpoints, SpecRequests

====
